---- MODULE Spec2Model ----
(***************************************************************************)
(* EchoSphere: branching stories kept in Firestore.                        *)
(*                                                                         *)
(* The store holds story documents (stories/{storyId}), node documents     *)
(* (stories/{storyId}/nodes/{nodeId}) and comment documents                *)
(* (stories/{storyId}/nodes/{nodeId}/comments/{commentId}).  The server    *)
(* actions createStoryAction, addStoryNodeAction,                          *)
(* addCommentToStoryNodeAction and handleVote write it, the page's         *)
(* fetchStoryAndNodes reads it.  Every await of an action is a step of the *)
(* model, so calls interleave at exactly the points where the code         *)
(* suspends.                                                               *)
(***************************************************************************)
EXTENDS Integers, Sequences, FiniteSets, TLC

\* ---------------------------------------------------------------- bounds
MaxStories == 2
MaxNodes == 4
MaxCommentedNodes == 3
MaxBranchComments == 1
MaxComments == 2
MaxTime == 1
MaxProcs == 2
NumVoters == 2

\* ------------------------------------------------------ program constants
\* z.string().min(10) on newNodeContent / initialNodeContent
MinContentLen == 10
\* attempts of runTransaction (Firestore's default maxAttempts)
MaxAttempts == 5

StoryIds == 1..MaxStories
NodeIds == 1..MaxNodes
CommentIds == 1..MaxComments
Procs == 1..MaxProcs
Voters == 1..NumVoters
\* an id that names no document (ids are generated by the store, a caller
\* cannot name a document before it exists)
BogusId == 0
\* parentId: null
Null == -1
\* the empty string, which z.string().min(1) rejects
EmptyId == -2

VARIABLES
    stories,            \* stories/{storyId}
    nodes,              \* stories/{storyId}/nodes/{nodeId}
    comments,           \* comment documents, in commit order
    now,                \* Date.now()
    incrementAvailable, \* typeof FieldValue.increment === 'function'
    calls               \* the calls in flight, one per process

vars == <<stories, nodes, comments, now, incrementAvailable, calls>>

\* a snapshot of a missing document: snapshot.exists() is false
NoDoc == [exists |-> FALSE]

\* `x || 0` on a field that may be absent from the document
FieldOr0(d, f) == IF f \in DOMAIN d THEN d[f] ELSE 0

Idle == [op |-> "none", pc |-> "idle"]

\* votedBy: {}
EmptyMap == [v \in {} |-> "upvote"]

Max(a, b) == IF a >= b THEN a ELSE b

\* --------------------------------------------------------------- the store
NodeExists(s, n) == n \in NodeIds /\ nodes[n].exists /\ nodes[n].storyId = s
StoryExists(s) == s \in StoryIds /\ stories[s].exists
NodesOf(s) == {n \in NodeIds : nodes[n].exists /\ nodes[n].storyId = s}
FreeStoryIds == {s \in StoryIds : ~stories[s].exists}
FreeNodeIds == {n \in NodeIds : ~nodes[n].exists}
UsedCommentIds == {comments[i].id : i \in 1..Len(comments)}
FreeCommentIds == CommentIds \ UsedCommentIds

\* calls in flight that will create a story, a node, a comment: the stores of
\* the model are finite, a call starts only while an id is left for it
Pending(ops) == Cardinality({q \in Procs : calls[q].op \in ops /\ calls[q].pc # "done"})
StoryIdLeft == Cardinality(FreeStoryIds) > Pending({"createStory"})
NodeIdLeft == Cardinality(FreeNodeIds) > Pending({"createStory", "addStoryNode"})
CommentIdLeft == Cardinality(FreeCommentIds) > Pending({"addComment"})

\* doc(collectionRef): a fresh id, one no document has
NewId(free) == CHOOSE i \in free : \A j \in free : i <= j

StoryArgs == {s \in StoryIds : stories[s].exists} \cup {BogusId}
NodeArgs == {n \in NodeIds : nodes[n].exists} \cup {BogusId}

\* a slip: a store that commits whatever was written in between
Invalidate_never(cs, ref) == cs

\* a commit that writes document `ref` fails the pending commit of every
\* transaction that read the document before (its updateTime has changed)
Invalidate(cs, ref) ==
    [q \in Procs |->
        IF cs[q].pc \in {"an_commit", "hv_commit"} /\ cs[q].readRef = ref
        THEN [cs[q] EXCEPT !.stale = TRUE]
        ELSE cs[q]]

Init ==
    /\ stories = [s \in StoryIds |-> NoDoc]
    /\ nodes = [n \in NodeIds |-> NoDoc]
    /\ comments = <<>>
    /\ now = 0
    /\ incrementAvailable \in BOOLEAN
    /\ calls = [p \in Procs |-> Idle]

Tick ==
    /\ now < MaxTime
    /\ now' = now + 1
    /\ UNCHANGED <<stories, nodes, comments, incrementAvailable, calls>>

\* the caller takes the result of a finished call
Return ==
    \E p \in Procs :
        /\ calls[p].pc = "done"
        /\ calls' = [calls EXCEPT ![p] = Idle]
        /\ UNCHANGED <<stories, nodes, comments, now, incrementAvailable>>

\* a finished call: what it was called with and what it returns
Done(c, res) == [op |-> c.op, pc |-> "done", result |-> res, call |-> c]

\* ------------------------------------------------------ createStoryAction
createStoryAction_begin ==
    \E p \in Procs, contentLen \in {MinContentLen - 1, MinContentLen} :
        /\ calls[p].pc = "idle"
        /\ StoryIdLeft /\ NodeIdLeft
        /\ LET c == [op |-> "createStory", pc |-> "cs_commit",
                     currentTime |-> now]
           IN calls' = [calls EXCEPT ![p] =
                  IF contentLen < MinContentLen
                  THEN Done(c, [error |-> "Invalid data"])
                  ELSE c]
        /\ UNCHANGED <<stories, nodes, comments, now, incrementAvailable>>

storyToCreate(currentTime) ==
    [exists |-> TRUE,
     createdAt |-> currentTime,
     updatedAt |-> currentTime,
     nodeCount |-> 1]

firstStoryNode(s, currentTime) ==
    [exists |-> TRUE,
     storyId |-> s,
     order |-> currentTime,
     parentId |-> Null,
     upvotes |-> 0,
     downvotes |-> 0,
     votedBy |-> EmptyMap,
     commentCount |-> 0]

\* a slip: two separate writes instead of a batch, the second of which fails
createStoryAction_commit_storyOnly ==
    \E p \in Procs :
        /\ calls[p].pc = "cs_commit"
        /\ LET s == NewId(FreeStoryIds)
               c == calls[p]
           IN /\ stories' = [stories EXCEPT ![s] = storyToCreate(c.currentTime)]
              /\ calls' = [calls EXCEPT ![p] =
                     Done(c, [error |-> "An error occurred while saving your story."])]
        /\ UNCHANGED <<nodes, comments, now, incrementAvailable>>

\* batch.commit(): the story and its first node, both or neither
createStoryAction_commit ==
    \E p \in Procs :
        /\ calls[p].pc = "cs_commit"
        /\ LET s == NewId(FreeStoryIds)
               n == NewId(FreeNodeIds)
               c == calls[p]
           IN /\ stories' = [stories EXCEPT ![s] = storyToCreate(c.currentTime)]
              /\ nodes' = [nodes EXCEPT ![n] = firstStoryNode(s, c.currentTime)]
               /\ calls' = [calls EXCEPT ![p] =
                      Done(c, [success |-> "created", storyId |-> s])]
        /\ UNCHANGED <<comments, now, incrementAvailable>>

\* ----------------------------------------------------- addStoryNodeAction
addStoryNodeAction_begin ==
    \E p \in Procs, s \in StoryArgs, parent \in NodeArgs,
       contentLen \in {MinContentLen - 1, MinContentLen} :
        /\ calls[p].pc = "idle"
        /\ NodeIdLeft
        /\ LET c == [op |-> "addStoryNode", pc |-> "an_get",
                     storyId |-> s, parentNodeId |-> parent,
                     currentTime |-> now, attempts |-> 0]
           IN calls' = [calls EXCEPT ![p] =
                  IF contentLen < MinContentLen
                  THEN Done(c, [error |-> "Invalid data"])
                  ELSE c]
        /\ UNCHANGED <<stories, nodes, comments, now, incrementAvailable>>

newStoryNode(s, parentNodeId, currentTime) ==
    [exists |-> TRUE,
     storyId |-> s,
     order |-> currentTime,
     parentId |-> parentNodeId,
     upvotes |-> 0,
     downvotes |-> 0,
     votedBy |-> EmptyMap,
     commentCount |-> 0]

\* a slip: the update of the story without the increment of nodeCount
StoryAfterAddNode_noIncrement(storyData, currentTime) ==
    [storyData EXCEPT !.updatedAt = currentTime]

\* transaction.update(storyRef, {nodeCount: FieldValue.increment(1), updatedAt})
StoryAfterAddNode(storyData, currentTime) ==
    [storyData EXCEPT !.nodeCount = @ + 1, !.updatedAt = currentTime]

\* a slip: a transaction body that goes on without looking at storySnap.exists()
addStoryNodeAction_get_noStoryCheck ==
    \E p \in Procs :
        /\ calls[p].pc = "an_get"
        /\ LET c == calls[p]
               storySnap == IF c.storyId \in StoryIds THEN stories[c.storyId] ELSE NoDoc
           IN calls' = [calls EXCEPT ![p] =
                  [op |-> c.op, pc |-> "an_commit",
                   storyId |-> c.storyId, parentNodeId |-> c.parentNodeId,
                   currentTime |-> c.currentTime,
                   attempts |-> c.attempts + 1,
                   readRef |-> <<"story", c.storyId>>, stale |-> FALSE,
                   finalNodeCount |-> FieldOr0(storySnap, "nodeCount") + 1]]
        /\ UNCHANGED <<stories, nodes, comments, now, incrementAvailable>>

\* one run of the transaction body: transaction.get(storyRef), then the
\* synchronous rest of the body up to its return
addStoryNodeAction_get ==
    \E p \in Procs :
        /\ calls[p].pc = "an_get"
        /\ LET c == calls[p]
               storySnap == IF c.storyId \in StoryIds THEN stories[c.storyId] ELSE NoDoc
           IN calls' = [calls EXCEPT ![p] =
                  IF ~storySnap.exists
                  THEN Done(c, [error |-> "Story not found."])
                  ELSE IF ~incrementAvailable
                  THEN Done(c, [error |-> "FieldValue.increment is not a function"])
                  ELSE [op |-> c.op, pc |-> "an_commit",
                        storyId |-> c.storyId, parentNodeId |-> c.parentNodeId,
                        currentTime |-> c.currentTime,
                        attempts |-> c.attempts + 1,
                        readRef |-> <<"story", c.storyId>>, stale |-> FALSE,
                        finalNodeCount |-> FieldOr0(storySnap, "nodeCount") + 1]]
        /\ UNCHANGED <<stories, nodes, comments, now, incrementAvailable>>

\* a slip: a plain write of the nodeCount computed from the story as read,
\* whatever was committed since
addStoryNodeAction_commit_lostUpdate ==
    \E p \in Procs :
        /\ calls[p].pc = "an_commit"
        /\ LET c == calls[p]
               n == NewId(FreeNodeIds)
           IN /\ nodes' = [nodes EXCEPT ![n] =
                     newStoryNode(c.storyId, c.parentNodeId, c.currentTime)]
              /\ stories' = [stories EXCEPT ![c.storyId] =
                     [@ EXCEPT !.nodeCount = c.finalNodeCount,
                               !.updatedAt = c.currentTime]]
              /\ calls' = [calls EXCEPT ![p] =
                     Done(c, [success |-> "New node added successfully!",
                              newNodeId |-> n,
                              nodeCount |-> c.finalNodeCount])]
        /\ UNCHANGED <<comments, now, incrementAvailable>>

\* the commit of the transaction: it fails when the story document changed
\* since it was read, and the body is then run again, MaxAttempts times at most
addStoryNodeAction_commit ==
    \E p \in Procs :
        /\ calls[p].pc = "an_commit"
        /\ LET c == calls[p] IN
           IF c.stale
           THEN /\ calls' = [calls EXCEPT ![p] =
                       IF c.attempts >= MaxAttempts
                       THEN Done(c, [error |-> "failed-precondition"])
                       ELSE [op |-> c.op, pc |-> "an_get",
                             storyId |-> c.storyId, parentNodeId |-> c.parentNodeId,
                             currentTime |-> c.currentTime, attempts |-> c.attempts]]
                /\ UNCHANGED <<stories, nodes>>
           ELSE LET n == NewId(FreeNodeIds)
                IN /\ nodes' = [nodes EXCEPT ![n] =
                          newStoryNode(c.storyId, c.parentNodeId, c.currentTime)]
                   /\ stories' = [stories EXCEPT ![c.storyId] =
                          StoryAfterAddNode(@, c.currentTime)]
                   /\ calls' = [Invalidate(calls, <<"story", c.storyId>>) EXCEPT ![p] =
                          Done(c, [success |-> "New node added successfully!",
                                   newNodeId |-> n,
                                   nodeCount |-> c.finalNodeCount])]
        /\ UNCHANGED <<comments, now, incrementAvailable>>

\* ------------------------------------------- addCommentToStoryNodeAction
\* the schema of the comment text: min(1) and not the empty rich text
Texts == {"", " ", "<p></p>", "<p>nice</p>"}
ValidCommentText(text) == Len(text) >= 1 /\ text # "<p></p>"
\* String.prototype.trim() on the texts of the model
Trim(text) == IF text = " " THEN "" ELSE text

addCommentToStoryNodeAction_begin ==
    \E p \in Procs, s \in StoryArgs, n \in NodeArgs, text \in Texts :
        /\ calls[p].pc = "idle"
        /\ CommentIdLeft
        /\ LET c == [op |-> "addComment", pc |-> "ac_commit",
                     storyId |-> s, nodeId |-> n, text |-> text,
                     currentTime |-> now]
           IN calls' = [calls EXCEPT ![p] =
                  IF ~ValidCommentText(text)
                  THEN Done(c, [error |-> "Invalid comment data"])
                  ELSE IF ~incrementAvailable
                  THEN Done(c, [error |-> "Failed to post comment.",
                                cause |-> "FieldValue.increment is not available"])
                  ELSE c]
        /\ UNCHANGED <<stories, nodes, comments, now, incrementAvailable>>

\* a slip: a batch without the update of the node
NodeAfterComment_noIncrement(nodeData) == nodeData

\* batch.update(nodeRef, {commentCount: FieldValue.increment(1)})
NodeAfterComment(nodeData) ==
    [nodeData EXCEPT !.commentCount = @ + 1]

\* a slip: a batch whose set of the comment is committed although the update
\* of the node finds no document
addCommentToStoryNodeAction_commit_setOnly ==
    \E p \in Procs :
        /\ calls[p].pc = "ac_commit"
        /\ LET c == calls[p] IN
           \E id \in FreeCommentIds :
               LET newComment == [id |-> id, storyId |-> c.storyId,
                                  nodeId |-> c.nodeId,
                                  createdAt |-> c.currentTime]
               IN /\ comments' = Append(comments, newComment)
                  /\ nodes' = IF NodeExists(c.storyId, c.nodeId)
                              THEN [nodes EXCEPT ![c.nodeId] = NodeAfterComment(@)]
                              ELSE nodes
                  /\ calls' = [Invalidate(calls, <<"node", c.nodeId>>) EXCEPT ![p] =
                         IF NodeExists(c.storyId, c.nodeId)
                         THEN Done(c, [success |-> "Comment posted!", commentId |-> id])
                         ELSE Done(c, [error |-> "Failed to post comment.", cause |-> "not-found"])]
        /\ UNCHANGED <<stories, now, incrementAvailable>>

\* batch.commit(): the set of the comment and the update of the node, both
\* or neither; the update needs the node document to exist
addCommentToStoryNodeAction_commit ==
    \E p \in Procs :
        /\ calls[p].pc = "ac_commit"
        /\ LET c == calls[p] IN
           IF ~NodeExists(c.storyId, c.nodeId)
           THEN /\ calls' = [calls EXCEPT ![p] = Done(c, [error |-> "Failed to post comment.", cause |-> "not-found"])]
                /\ UNCHANGED <<nodes, comments>>
           ELSE \E id \in FreeCommentIds :
                LET newComment == [id |-> id, storyId |-> c.storyId,
                                   nodeId |-> c.nodeId,
                                   createdAt |-> c.currentTime]
                IN /\ comments' = Append(comments, newComment)
                   /\ nodes' = [nodes EXCEPT ![c.nodeId] = NodeAfterComment(@)]
                   /\ calls' = [Invalidate(calls, <<"node", c.nodeId>>) EXCEPT ![p] =
                          Done(c, [success |-> "Comment posted!", commentId |-> id])]
        /\ UNCHANGED <<stories, now, incrementAvailable>>

\* --------------------------------------------------------------- handleVote
VoteTypes == {"upvote", "downvote"}

\* const userPreviousVote = currentVotedBy[userId]
\* const currentVotedBy = nodeData.votedBy || {}
VotedByOrEmpty(nodeData) ==
    IF "votedBy" \in DOMAIN nodeData THEN nodeData.votedBy ELSE EmptyMap

PreviousVote(nodeData, userId) ==
    IF userId \in DOMAIN VotedByOrEmpty(nodeData)
    THEN VotedByOrEmpty(nodeData)[userId] ELSE "undefined"

\* a slip: the withdrawal of a vote that leaves the entry of the voter in
VoteToggle_keepsEntry(nodeData, userId, voteType) ==
    LET prev == PreviousVote(nodeData, userId)
        set == [v \in DOMAIN nodeData.votedBy \cup {userId} |->
                   IF v = userId THEN voteType ELSE nodeData.votedBy[v]]
        up == nodeData.upvotes
        down == nodeData.downvotes
    IN IF voteType = "upvote"
       THEN IF prev = "upvote"
            THEN [upvotes |-> Max(0, up - 1), downvotes |-> down, votedBy |-> set]
            ELSE [upvotes |-> up + 1,
                  downvotes |-> IF prev = "downvote" THEN Max(0, down - 1) ELSE down,
                  votedBy |-> set]
       ELSE IF prev = "downvote"
            THEN [upvotes |-> up, downvotes |-> Max(0, down - 1), votedBy |-> set]
            ELSE [upvotes |-> IF prev = "upvote" THEN Max(0, up - 1) ELSE up,
                  downvotes |-> down + 1,
                  votedBy |-> set]

\* a slip: a new vote that takes one off the opposite tally without looking
\* at the previous vote of the voter, and without the floor
VoteToggle_blindDecrement(nodeData, userId, voteType) ==
    LET prev == PreviousVote(nodeData, userId)
        removed == [v \in DOMAIN nodeData.votedBy \ {userId} |-> nodeData.votedBy[v]]
        set == [v \in DOMAIN nodeData.votedBy \cup {userId} |->
                   IF v = userId THEN voteType ELSE nodeData.votedBy[v]]
        up == nodeData.upvotes
        down == nodeData.downvotes
    IN IF voteType = "upvote"
       THEN IF prev = "upvote"
            THEN [upvotes |-> Max(0, up - 1), downvotes |-> down, votedBy |-> removed]
            ELSE [upvotes |-> up + 1, downvotes |-> down - 1, votedBy |-> set]
       ELSE IF prev = "downvote"
            THEN [upvotes |-> up, downvotes |-> Max(0, down - 1), votedBy |-> removed]
            ELSE [upvotes |-> up - 1, downvotes |-> down + 1, votedBy |-> set]

\* a slip: a changed vote that leaves the opposite tally as it was
VoteToggle_noSwitch(nodeData, userId, voteType) ==
    LET prev == PreviousVote(nodeData, userId)
        removed == [v \in DOMAIN nodeData.votedBy \ {userId} |-> nodeData.votedBy[v]]
        set == [v \in DOMAIN nodeData.votedBy \cup {userId} |->
                   IF v = userId THEN voteType ELSE nodeData.votedBy[v]]
        up == nodeData.upvotes
        down == nodeData.downvotes
    IN IF voteType = "upvote"
       THEN IF prev = "upvote"
            THEN [upvotes |-> Max(0, up - 1), downvotes |-> down, votedBy |-> removed]
            ELSE [upvotes |-> up + 1, downvotes |-> down, votedBy |-> set]
       ELSE IF prev = "downvote"
            THEN [upvotes |-> up, downvotes |-> Max(0, down - 1), votedBy |-> removed]
            ELSE [upvotes |-> up, downvotes |-> down + 1, votedBy |-> set]

\* the body of the transaction between the read of the node and the update
VoteToggle(nodeData, userId, voteType) ==
    LET currentVotedBy == VotedByOrEmpty(nodeData)
        upvotes == FieldOr0(nodeData, "upvotes")
        downvotes == FieldOr0(nodeData, "downvotes")
        userPreviousVote == PreviousVote(nodeData, userId)
        removed == [v \in DOMAIN currentVotedBy \ {userId} |-> currentVotedBy[v]]
        set == [v \in DOMAIN currentVotedBy \cup {userId} |->
                   IF v = userId THEN voteType ELSE currentVotedBy[v]]
    IN IF voteType = "upvote"
       THEN IF userPreviousVote = "upvote"
            THEN [upvotes |-> Max(0, upvotes - 1), downvotes |-> downvotes,
                  votedBy |-> removed]
            ELSE [upvotes |-> upvotes + 1,
                  downvotes |-> IF userPreviousVote = "downvote"
                                THEN Max(0, downvotes - 1) ELSE downvotes,
                  votedBy |-> set]
       ELSE IF userPreviousVote = "downvote"
            THEN [upvotes |-> upvotes, downvotes |-> Max(0, downvotes - 1),
                  votedBy |-> removed]
            ELSE [upvotes |-> IF userPreviousVote = "upvote"
                              THEN Max(0, upvotes - 1) ELSE upvotes,
                  downvotes |-> downvotes + 1,
                  votedBy |-> set]

\* a slip: a set of the whole node document in place of the update
NodeAfterVote_wholeDocument(nodeData, update) ==
    [nodeData EXCEPT !.upvotes = update.upvotes,
                     !.downvotes = update.downvotes,
                     !.votedBy = update.votedBy,
                     !.commentCount = 0]

\* transaction.update(nodeRef, {upvotes, downvotes, votedBy, updatedAt})
NodeAfterVote(nodeData, update) ==
    [nodeData EXCEPT !.upvotes = update.upvotes,
                     !.downvotes = update.downvotes,
                     !.votedBy = update.votedBy]

handleVote_begin ==
    \E p \in Procs, s \in StoryArgs, n \in NodeArgs,
       userId \in Voters \cup {EmptyId}, voteType \in VoteTypes :
        /\ calls[p].pc = "idle"
        /\ LET c == [op |-> "handleVote", pc |-> "hv_get",
                     storyId |-> s, nodeId |-> n, userId |-> userId,
                     voteType |-> voteType, attempts |-> 0]
           IN calls' = [calls EXCEPT ![p] =
                  IF userId = EmptyId
                  THEN Done(c, [error |-> "Invalid vote data"])
                  ELSE c]
        /\ UNCHANGED <<stories, nodes, comments, now, incrementAvailable>>

\* a slip: a transaction body that takes a missing node for a vote recorded
handleVote_get_noNodeCheck ==
    \E p \in Procs :
        /\ calls[p].pc = "hv_get"
        /\ LET c == calls[p] IN
           calls' = [calls EXCEPT ![p] =
               IF ~NodeExists(c.storyId, c.nodeId)
               THEN Done(c, [success |-> "Vote recorded!"])
               ELSE [op |-> c.op, pc |-> "hv_commit",
                     storyId |-> c.storyId, nodeId |-> c.nodeId,
                     userId |-> c.userId, voteType |-> c.voteType,
                     attempts |-> c.attempts + 1,
                     readRef |-> <<"node", c.nodeId>>, stale |-> FALSE,
                     userPreviousVote |-> PreviousVote(nodes[c.nodeId], c.userId),
                     update |-> VoteToggle(nodes[c.nodeId], c.userId, c.voteType)]]
        /\ UNCHANGED <<stories, nodes, comments, now, incrementAvailable>>

\* one run of the transaction body: transaction.get(nodeRef), the toggle,
\* transaction.update(nodeRef, ...)
handleVote_get ==
    \E p \in Procs :
        /\ calls[p].pc = "hv_get"
        /\ LET c == calls[p] IN
           calls' = [calls EXCEPT ![p] =
               IF ~NodeExists(c.storyId, c.nodeId)
               THEN Done(c, [error |-> "Failed to record vote.",
                             cause |-> "Story node not found."])
               ELSE [op |-> c.op, pc |-> "hv_commit",
                     storyId |-> c.storyId, nodeId |-> c.nodeId,
                     userId |-> c.userId, voteType |-> c.voteType,
                     attempts |-> c.attempts + 1,
                     readRef |-> <<"node", c.nodeId>>, stale |-> FALSE,
                     userPreviousVote |-> PreviousVote(nodes[c.nodeId], c.userId),
                     update |-> VoteToggle(nodes[c.nodeId], c.userId, c.voteType)]]
        /\ UNCHANGED <<stories, nodes, comments, now, incrementAvailable>>

\* a slip: a failed commit that starts the transaction over without counting
handleVote_commit_unboundedRetry ==
    \E p \in Procs :
        /\ calls[p].pc = "hv_commit"
        /\ LET c == calls[p] IN
           IF c.stale
           THEN /\ calls' = [calls EXCEPT ![p] =
                       [op |-> c.op, pc |-> "hv_get",
                        storyId |-> c.storyId, nodeId |-> c.nodeId,
                        userId |-> c.userId, voteType |-> c.voteType,
                        attempts |-> 0]]
                /\ UNCHANGED nodes
           ELSE /\ nodes' = [nodes EXCEPT ![c.nodeId] = NodeAfterVote(@, c.update)]
                /\ calls' = [Invalidate(calls, <<"node", c.nodeId>>) EXCEPT ![p] =
                       Done(c, [success |-> "Vote recorded!"])]
        /\ UNCHANGED <<stories, comments, now, incrementAvailable>>

handleVote_commit ==
    \E p \in Procs :
        /\ calls[p].pc = "hv_commit"
        /\ LET c == calls[p] IN
           IF c.stale
           THEN /\ calls' = [calls EXCEPT ![p] =
                       IF c.attempts >= MaxAttempts
                       THEN Done(c, [error |-> "Failed to record vote.",
                                     cause |-> "failed-precondition"])
                       ELSE [op |-> c.op, pc |-> "hv_get",
                             storyId |-> c.storyId, nodeId |-> c.nodeId,
                             userId |-> c.userId, voteType |-> c.voteType,
                             attempts |-> c.attempts]]
                /\ UNCHANGED nodes
           ELSE /\ nodes' = [nodes EXCEPT ![c.nodeId] = NodeAfterVote(@, c.update)]
                /\ calls' = [Invalidate(calls, <<"node", c.nodeId>>) EXCEPT ![p] =
                       Done(c, [success |-> "Vote recorded!"])]
        /\ UNCHANGED <<stories, comments, now, incrementAvailable>>

\* ------------------------------------------------------- fetchStoryAndNodes
\* a slip: a query that returns documents of equal order in an order that
\* depends on the time of the read
RECURSIVE NodesQuery_tiesByClock(_)
NodesQuery_tiesByClock(S) ==
    IF S = {} THEN <<>>
    ELSE LET first == CHOOSE n \in S : \A m \in S :
                          \/ nodes[n].order < nodes[m].order
                          \/ /\ nodes[n].order = nodes[m].order
                             /\ IF now % 2 = 0 THEN n <= m ELSE n >= m
         IN <<[id |-> first, parentId |-> nodes[first].parentId,
               order |-> nodes[first].order,
               upvotes |-> FieldOr0(nodes[first], "upvotes"),
               downvotes |-> FieldOr0(nodes[first], "downvotes"),
               commentCount |-> FieldOr0(nodes[first], "commentCount")]>>
            \o NodesQuery_tiesByClock(S \ {first})

\* query(nodesCollectionRef, orderBy("order", "asc")): by order, then by id
RECURSIVE NodesQuery(_)
NodesQuery(S) ==
    IF S = {} THEN <<>>
    ELSE LET first == CHOOSE n \in S : \A m \in S :
                          \/ nodes[n].order < nodes[m].order
                          \/ nodes[n].order = nodes[m].order /\ n <= m
         IN <<[id |-> first, parentId |-> nodes[first].parentId,
               order |-> nodes[first].order,
               upvotes |-> FieldOr0(nodes[first], "upvotes"),
               downvotes |-> FieldOr0(nodes[first], "downvotes"),
               commentCount |-> FieldOr0(nodes[first], "commentCount")]>>
            \o NodesQuery(S \ {first})

fetchStoryAndNodes_begin ==
    \E p \in Procs, s \in StoryArgs :
        /\ calls[p].pc = "idle"
        /\ calls' = [calls EXCEPT ![p] =
               [op |-> "fetchStoryAndNodes", pc |-> "fs_story", storyId |-> s]]
        /\ UNCHANGED <<stories, nodes, comments, now, incrementAvailable>>

\* getDoc(storyRef)
fetchStoryAndNodes_story ==
    \E p \in Procs :
        /\ calls[p].pc = "fs_story"
        /\ LET c == calls[p]
               storySnap == IF c.storyId \in StoryIds THEN stories[c.storyId] ELSE NoDoc
           IN calls' = [calls EXCEPT ![p] =
                  IF ~storySnap.exists
                  THEN Done(c, [error |-> "Story not found."])
                  ELSE [op |-> c.op, pc |-> "fs_nodes", storyId |-> c.storyId,
                        story |-> storySnap]]
        /\ UNCHANGED <<stories, nodes, comments, now, incrementAvailable>>

\* getDocs(nodesQuery)
fetchStoryAndNodes_nodes ==
    \E p \in Procs :
        /\ calls[p].pc = "fs_nodes"
        /\ LET c == calls[p]
           IN calls' = [calls EXCEPT ![p] =
                  Done(c, [story |-> c.story,
                           storyNodes |-> NodesQuery(NodesOf(c.storyId))])]
        /\ UNCHANGED <<stories, nodes, comments, now, incrementAvailable>>

\* -------------------------------------------------------- fetchNodeComments
\* the positions in `comments` of the comment documents under a node
CommentsOf(s, n) ==
    {i \in 1..Len(comments) : comments[i].storyId = s /\ comments[i].nodeId = n}

\* a slip: a query that returns the documents in the order of their commit
RECURSIVE CommentsQuery_commitOrder(_)
CommentsQuery_commitOrder(I) ==
    IF I = {} THEN <<>>
    ELSE LET first == CHOOSE i \in I : \A j \in I : i <= j
         IN <<comments[first]>> \o CommentsQuery_commitOrder(I \ {first})

\* query(commentsRef, orderBy("createdAt", "asc")): by createdAt, then by id
RECURSIVE CommentsQuery(_)
CommentsQuery(I) ==
    IF I = {} THEN <<>>
    ELSE LET first == CHOOSE i \in I : \A j \in I :
                          \/ comments[i].createdAt < comments[j].createdAt
                          \/ /\ comments[i].createdAt = comments[j].createdAt
                             /\ comments[i].id <= comments[j].id
         IN <<comments[first]>> \o CommentsQuery(I \ {first})

fetchNodeComments_begin ==
    \E p \in Procs, s \in StoryArgs, n \in NodeArgs :
        /\ calls[p].pc = "idle"
        /\ s # BogusId /\ n # BogusId
        /\ calls' = [calls EXCEPT ![p] =
               [op |-> "fetchNodeComments", pc |-> "fc_query",
                storyId |-> s, nodeId |-> n]]
        /\ UNCHANGED <<stories, nodes, comments, now, incrementAvailable>>

\* getDocs(q)
fetchNodeComments_query ==
    \E p \in Procs :
        /\ calls[p].pc = "fc_query"
        /\ LET c == calls[p]
           IN calls' = [calls EXCEPT ![p] =
                  Done(c, [nodeComments |->
                              CommentsQuery(CommentsOf(c.storyId, c.nodeId))])]
        /\ UNCHANGED <<stories, nodes, comments, now, incrementAvailable>>

\* ------------------------------------------------------------ the rendering
\* array.filter(node => node.parentId === parentId)
FilterByParent(nodeSeq, parentId) ==
    LET Test(x) == x.parentId = parentId
    IN SelectSeq(nodeSeq, Test)

\* a slip: a sort by descending order
InsertByOrder_descending(x, sorted) ==
    LET k == Cardinality({i \in 1..Len(sorted) : sorted[i].order >= x.order})
    IN SubSeq(sorted, 1, k) \o <<x>> \o SubSeq(sorted, k + 1, Len(sorted))

\* a step of the stable sort: x goes behind the elements that are not after it
InsertByOrder(x, sorted) ==
    LET k == Cardinality({i \in 1..Len(sorted) : sorted[i].order <= x.order})
    IN SubSeq(sorted, 1, k) \o <<x>> \o SubSeq(sorted, k + 1, Len(sorted))

\* array.sort((a, b) => a.order - b.order): stable, elements of equal order
\* stay in the order they had
RECURSIVE SortByOrder(_)
SortByOrder(nodeSeq) ==
    IF nodeSeq = <<>> THEN <<>>
    ELSE InsertByOrder(nodeSeq[Len(nodeSeq)],
                       SortByOrder(SubSeq(nodeSeq, 1, Len(nodeSeq) - 1)))

\* the ids of the nodes in the order in which the page shows them:
\* StoryNodeDisplay shows its node, then a StoryNodeDisplay for each child
RECURSIVE StoryNodeDisplay(_, _, _)
RECURSIVE MapStoryNodeDisplay(_, _, _)
StoryNodeDisplay(node, allNodes, level) ==
    LET children == SortByOrder(FilterByParent(allNodes, node.id))
    IN IF level >= Len(allNodes) THEN <<node.id>>
       ELSE <<node.id>> \o MapStoryNodeDisplay(children, allNodes, level + 1)
MapStoryNodeDisplay(nodeSeq, allNodes, level) ==
    IF nodeSeq = <<>> THEN <<>>
    ELSE StoryNodeDisplay(Head(nodeSeq), allNodes, level)
         \o MapStoryNodeDisplay(Tail(nodeSeq), allNodes, level)

renderNodesRecursive(nodesToRender, allNodes, parentId, level) ==
    MapStoryNodeDisplay(SortByOrder(FilterByParent(nodesToRender, parentId)),
                        allNodes, level)

\* renderNodesRecursive(rootNodesToRender, storyNodes, null, 0)
Traversal(storyNodes) ==
    LET rootNodesToRender == FilterByParent(storyNodes, Null)
    IN renderNodesRecursive(rootNodesToRender, storyNodes, Null, 0)

\* the diagnostics of the rendering: it reports nothing
Diagnostics(storyNodes) == {}

CreateStory == createStoryAction_begin \/ createStoryAction_commit
AddStoryNode ==
    addStoryNodeAction_begin \/ addStoryNodeAction_get \/ addStoryNodeAction_commit
AddComment == addCommentToStoryNodeAction_begin \/ addCommentToStoryNodeAction_commit
Vote == handleVote_begin \/ handleVote_get \/ handleVote_commit
Fetch ==
    fetchStoryAndNodes_begin \/ fetchStoryAndNodes_story \/ fetchStoryAndNodes_nodes
FetchComments == fetchNodeComments_begin \/ fetchNodeComments_query

\* every action of the program
Next ==
    \/ Tick \/ Return \/ CreateStory \/ AddStoryNode \/ AddComment \/ Vote
    \/ Fetch \/ FetchComments

Spec == Init /\ [][Next]_vars

\* stories and their branches: the calls that create documents, and a reader
NextTree == Tick \/ Return \/ CreateStory \/ AddStoryNode \/ Fetch
SpecTree == Init /\ [][NextTree]_vars

\* branches and comments, in a store of MaxCommentedNodes nodes and
\* MaxBranchComments comments
FewNodes ==
    Cardinality({n \in NodeIds : nodes[n].exists})
        + Pending({"createStory", "addStoryNode"}) < MaxCommentedNodes
FewComments == Len(comments) + Pending({"addComment"}) < MaxBranchComments
NextComment ==
    \/ Tick
    \/ Return
    \/ createStoryAction_begin /\ FewNodes
    \/ createStoryAction_commit
    \/ addStoryNodeAction_begin /\ FewNodes
    \/ addStoryNodeAction_get
    \/ addStoryNodeAction_commit
    \/ addCommentToStoryNodeAction_begin /\ FewComments
    \/ addCommentToStoryNodeAction_commit
SpecComment == Init /\ [][NextComment]_vars

\* votes on the nodes of a story: the state after one createStoryAction
InitVote ==
    /\ stories = [s \in StoryIds |-> IF s = 1 THEN storyToCreate(0) ELSE NoDoc]
    /\ nodes = [n \in NodeIds |-> IF n = 1 THEN firstStoryNode(1, 0) ELSE NoDoc]
    /\ comments = <<>>
    /\ now = 0
    /\ incrementAvailable \in BOOLEAN
    /\ calls = [p \in Procs |-> Idle]
NextVote == Return \/ Vote
SpecVote == InitVote /\ [][NextVote]_vars

\* a step of the transaction of process p: the server runs every call on
\* its own, whatever the other calls do
VoteStep(p) ==
    /\ handleVote_get \/ handleVote_commit
    /\ calls'[p].pc # calls[p].pc
FairSpecVote == SpecVote /\ \A p \in Procs : WF_vars(VoteStep(p))

\* a race: every process has called handleVote on the first node of the story,
\* each for another voter, and no other call is made
InitRace ==
    /\ stories = [s \in StoryIds |-> IF s = 1 THEN storyToCreate(0) ELSE NoDoc]
    /\ nodes = [n \in NodeIds |-> IF n = 1 THEN firstStoryNode(1, 0) ELSE NoDoc]
    /\ comments = <<>>
    /\ now = 0
    /\ incrementAvailable \in BOOLEAN
    /\ calls \in {[p \in Procs |->
                     [op |-> "handleVote", pc |-> "hv_get", storyId |-> 1,
                      nodeId |-> 1, userId |-> u[p], voteType |-> t[p],
                      attempts |-> 0]] :
                  u \in {f \in [Procs -> Voters] :
                            \A p, q \in Procs : p # q => f[p] # f[q]},
                  t \in [Procs -> VoteTypes]}
NextRace == handleVote_get \/ handleVote_commit
SpecRace == InitRace /\ [][NextRace]_vars
\* a call that can take a step takes it: the server runs every action to its end
FairSpecRace == SpecRace /\ WF_vars(NextRace)

\* one caller, one story with one branch: the calls are made one after the
\* other, each started when the one before has returned
Solo == \A p \in Procs \ {1} : calls[p] = Idle
NoStoryYet == \A s \in StoryIds : ~stories[s].exists
NoBranchYet == Cardinality({n \in NodeIds : nodes[n].exists}) < 2
NextSequential ==
    \/ Return /\ Solo'
    \/ createStoryAction_begin /\ NoStoryYet /\ Solo'
    \/ createStoryAction_commit
    \/ addStoryNodeAction_begin /\ NoBranchYet /\ Solo'
    \/ addStoryNodeAction_get
    \/ addStoryNodeAction_commit
    \/ addCommentToStoryNodeAction_begin /\ Solo'
    \/ addCommentToStoryNodeAction_commit
    \/ handleVote_begin /\ Solo'
    \/ handleVote_get
    \/ handleVote_commit
SpecSequential == Init /\ [][NextSequential]_vars

\* the comment thread of the first node of a story: the state after one
\* createStoryAction, writers and readers of the comments
NextThread == Tick \/ Return \/ AddComment \/ FetchComments
SpecThread == InitVote /\ [][NextThread]_vars

\* votes and comments on the first node of a story
NextMixed == Return \/ Vote \/ AddComment
SpecMixed == InitVote /\ [][NextMixed]_vars

\* -------------------------------------------------------------- properties
IsDone(p, op) == calls[p].pc = "done" /\ calls[p].op = op
Succeeded(p) == "success" \in DOMAIN calls[p].result
Failed(p) == "error" \in DOMAIN calls[p].result
\* the message of the error that the catch block of the action has wrapped
Cause(p) == IF "cause" \in DOMAIN calls[p].result THEN calls[p].result.cause ELSE "none"

RECURSIVE SumCommentCount(_)
SumCommentCount(S) ==
    IF S = {} THEN 0
    ELSE LET n == CHOOSE m \in S : TRUE
         IN FieldOr0(nodes[n], "commentCount") + SumCommentCount(S \ {n})

RECURSIVE SumCommentCountRead(_)
SumCommentCountRead(storyNodes) ==
    IF storyNodes = <<>> THEN 0
    ELSE Head(storyNodes).commentCount + SumCommentCountRead(Tail(storyNodes))

\* C1: in every committed state, the nodeCount of a story is the number of
\* node documents stored under the story, whatever the interleaving of
\* createStoryAction and addStoryNodeAction calls.
C1_NodeCountIsNumberOfNodes ==
    \A s \in StoryIds :
        stories[s].exists => FieldOr0(stories[s], "nodeCount") = Cardinality(NodesOf(s))

\* a story of three nodes, the last one added by a call whose transaction was
\* run again after a concurrent call on the same story committed first
C1_Witness ==
    \E s \in StoryIds, p \in Procs :
        /\ stories[s].exists /\ stories[s].nodeCount = 3
        /\ IsDone(p, "addStoryNode") /\ Succeeded(p)
        /\ calls[p].call.storyId = s /\ calls[p].call.attempts >= 2

\* C2: in every committed state, the commentCount of a story is the sum of
\* the commentCount of its nodes.
C2_StoryCommentCountIsSum ==
    \A s \in StoryIds :
        stories[s].exists =>
            FieldOr0(stories[s], "commentCount") = SumCommentCount(NodesOf(s))

\* C3: what fetchStoryAndNodes has read is consistent: the nodeCount of the
\* story it read is the number of nodes it read, and the commentCount of the
\* story it read is the sum of the commentCount of the nodes it read.
C3_ReaderSeesConsistentAggregates ==
    \A p \in Procs :
        (IsDone(p, "fetchStoryAndNodes") /\ ~Failed(p)) =>
            /\ FieldOr0(calls[p].result.story, "nodeCount")
                   = Len(calls[p].result.storyNodes)
            /\ FieldOr0(calls[p].result.story, "commentCount")
                   = SumCommentCountRead(calls[p].result.storyNodes)

\* C4: the handleVote calls of different voters that run concurrently on one
\* node all return success in the end, and the node then holds the entry of
\* every one of them, each counted once in upvotes or downvotes.
RaceSettled ==
    /\ \A p \in Procs : IsDone(p, "handleVote") /\ Succeeded(p)
    /\ DOMAIN nodes[1].votedBy = {calls[p].call.userId : p \in Procs}
    /\ \A p \in Procs : nodes[1].votedBy[calls[p].call.userId] = calls[p].call.voteType
    /\ nodes[1].upvotes = Cardinality({p \in Procs : calls[p].call.voteType = "upvote"})
    /\ nodes[1].downvotes = Cardinality({p \in Procs : calls[p].call.voteType = "downvote"})
C4_ConcurrentVotesBothCounted == <>RaceSettled

\* the race is settled and one of the calls had to run its transaction again
C4_Witness ==
    RaceSettled /\ \E p \in Procs : calls[p].call.attempts >= 2

\* two casts in a row of one vote by one voter, from node state nodeData
TwoCasts(nodeData, userId, voteType) ==
    LET once == NodeAfterVote(nodeData, VoteToggle(nodeData, userId, voteType))
    IN NodeAfterVote(once, VoteToggle(once, userId, voteType))

\* C5 as claimed: from every node state, two casts in a row of the same vote
\* by the same voter leave the tallies as they were and the voter without entry.
C5_TwoCastsRestoreAnyState ==
    \A n \in NodeIds, u \in Voters, d \in VoteTypes :
        nodes[n].exists =>
            LET twice == TwoCasts(nodes[n], u, d)
            IN /\ twice.upvotes = nodes[n].upvotes
               /\ twice.downvotes = nodes[n].downvotes
               /\ u \notin DOMAIN twice.votedBy

\* C5 as amended: from every node state in which the voter has no entry, two
\* casts in a row of the same vote by the same voter leave the tallies as
\* they were and the voter without entry.
C5_TwoCastsRestoreWhenNoEntry ==
    \A n \in NodeIds, u \in Voters, d \in VoteTypes :
        (nodes[n].exists /\ u \notin DOMAIN nodes[n].votedBy) =>
            LET twice == TwoCasts(nodes[n], u, d)
            IN /\ twice.upvotes = nodes[n].upvotes
               /\ twice.downvotes = nodes[n].downvotes
               /\ u \notin DOMAIN twice.votedBy

\* a voter has cast a vote and cast it again: the second call found the vote
\* of the first and withdrew it, the other voter has voted in the meantime
C5_Witness ==
    \E p \in Procs :
        /\ IsDone(p, "handleVote") /\ Succeeded(p)
        /\ calls[p].call.userPreviousVote = calls[p].call.voteType
        /\ calls[p].call.userId \notin DOMAIN nodes[1].votedBy
        /\ nodes[1].votedBy # EmptyMap

\* C6: upvotes and downvotes of every node are never below zero.
C6_TalliesNeverNegative ==
    \A n \in NodeIds :
        nodes[n].exists => nodes[n].upvotes >= 0 /\ nodes[n].downvotes >= 0

\* a changed vote has taken the last upvote of the node away
C6_Witness ==
    \E p \in Procs :
        /\ IsDone(p, "handleVote") /\ Succeeded(p)
        /\ calls[p].call.userPreviousVote = "upvote"
        /\ calls[p].call.voteType = "downvote"
        /\ nodes[1].upvotes = 0 /\ nodes[1].downvotes = 1

\* C7: the tallies of a node count the entries of its votedBy, one per voter:
\* upvotes is the number of voters whose entry is 'upvote', downvotes the
\* number of voters whose entry is 'downvote'.
C7_TalliesCountEntries ==
    \A n \in NodeIds :
        nodes[n].exists =>
            /\ DOMAIN nodes[n].votedBy \subseteq Voters
            /\ nodes[n].upvotes =
                   Cardinality({v \in DOMAIN nodes[n].votedBy : nodes[n].votedBy[v] = "upvote"})
            /\ nodes[n].downvotes =
                   Cardinality({v \in DOMAIN nodes[n].votedBy : nodes[n].votedBy[v] = "downvote"})

\* two voters have an entry, the later one written by a transaction that ran
\* again because the other vote was committed in between
C7_Witness ==
    \E p \in Procs :
        /\ IsDone(p, "handleVote") /\ Succeeded(p)
        /\ calls[p].call.attempts >= 2
        /\ Cardinality(DOMAIN nodes[1].votedBy) = 2
        /\ nodes[1].upvotes = 1 /\ nodes[1].downvotes = 1

Tally(nodeData, voteType) ==
    IF voteType = "upvote" THEN nodeData.upvotes ELSE nodeData.downvotes
Opposite(voteType) == IF voteType = "upvote" THEN "downvote" ELSE "upvote"

\* C8: a committed handleVote whose direction differs from the previous vote
\* of the voter sets the entry of the voter to the direction and adds one to
\* the tally of the direction; a previous opposite vote takes one off the
\* opposite tally (not below zero), no previous vote leaves it unchanged.
C8_NewVoteEffect ==
    [][\A p \in Procs :
          (/\ calls[p].pc = "hv_commit" /\ ~calls[p].stale
           /\ calls'[p].pc = "done"
           /\ PreviousVote(nodes[calls[p].nodeId], calls[p].userId) # calls[p].voteType)
          =>
          LET n == calls[p].nodeId
              u == calls[p].userId
              d == calls[p].voteType
              prior == PreviousVote(nodes[n], u)
          IN /\ u \in DOMAIN nodes'[n].votedBy /\ nodes'[n].votedBy[u] = d
             /\ Tally(nodes'[n], d) = Tally(nodes[n], d) + 1
             /\ prior = Opposite(d) =>
                    Tally(nodes'[n], Opposite(d)) = Max(0, Tally(nodes[n], Opposite(d)) - 1)
             /\ prior = "undefined" =>
                    Tally(nodes'[n], Opposite(d)) = Tally(nodes[n], Opposite(d))
      ]_vars

\* a voter has changed a downvote into an upvote next to the upvote of another
C8_Witness ==
    \E p \in Procs :
        /\ IsDone(p, "handleVote") /\ Succeeded(p)
        /\ calls[p].call.userPreviousVote = "downvote"
        /\ calls[p].call.voteType = "upvote"
        /\ nodes[1].upvotes = 2 /\ nodes[1].downvotes = 0

\* C9: an addStoryNodeAction call whose parentNodeId names no node of the
\* story returns an error, creates no node and leaves the story as it was.
C9_MissingParentRejected ==
    [][\A p \in Procs :
          (/\ calls[p].pc # "done"
           /\ calls'[p].pc = "done" /\ calls'[p].op = "addStoryNode"
           /\ ~NodeExists(calls'[p].call.storyId, calls'[p].call.parentNodeId))
          =>
          /\ "error" \in DOMAIN calls'[p].result
          /\ nodes' = nodes
          /\ stories' = stories
      ]_vars

\* the walk from node n along parentId ends at a root within k links
RECURSIVE ReachesRoot(_, _)
ReachesRoot(n, k) ==
    IF nodes[n].parentId = Null THEN TRUE
    ELSE IF k = 0 \/ ~NodeExists(nodes[n].storyId, nodes[n].parentId) THEN FALSE
    ELSE ReachesRoot(nodes[n].parentId, k - 1)

\* C10: every node with a parentId has the id of a node of its story there,
\* every story has exactly one node without parentId, and the parentId links
\* lead from every node to that root without a cycle.
C10_ParentLinksFormTree ==
    /\ \A n \in NodeIds :
          (nodes[n].exists /\ nodes[n].parentId # Null) =>
              NodeExists(nodes[n].storyId, nodes[n].parentId)
    /\ \A s \in StoryIds :
          stories[s].exists =>
              Cardinality({n \in NodesOf(s) : nodes[n].parentId = Null}) = 1
    /\ \A n \in NodeIds : nodes[n].exists => ReachesRoot(n, MaxNodes)
\* C11: an addStoryNodeAction call (with data that pass the schema) whose
\* storyId names no story document returns the error 'Story not found.' and
\* leaves the store as it was: no node is created, no story created or changed.
C11_MissingStoryRejected ==
    [][\A p \in Procs :
          (/\ calls[p].pc \in {"an_get", "an_commit"}
           /\ calls'[p].pc = "done"
           /\ ~StoryExists(calls[p].storyId))
          =>
          /\ "error" \in DOMAIN calls'[p].result
          /\ calls'[p].result.error = "Story not found."
          /\ nodes' = nodes
          /\ stories' = stories
          /\ comments' = comments
      ]_vars

\* a call on a story that does not exist has returned 'Story not found.' while
\* the store holds a story with a branch
C11_Witness ==
    \E p \in Procs :
        /\ IsDone(p, "addStoryNode") /\ Failed(p)
        /\ calls[p].result.error = "Story not found."
        /\ ~StoryExists(calls[p].call.storyId)
        /\ \E s \in StoryIds : stories[s].exists /\ stories[s].nodeCount = 2
\* a comment body without content: empty, whitespace only, or the empty rich text
IsBlank(text) == Trim(text) = "" \/ text = "<p></p>"

\* C12: an addCommentToStoryNodeAction call with an empty or blank text (the
\* empty string, a whitespace-only string, the empty rich text '<p></p>')
\* returns a validation error and writes nothing: the comments and every
\* commentCount are as they were.
C12_BlankCommentRejected ==
    [][\A p \in Procs :
          (/\ calls[p].pc # "done"
           /\ calls'[p].pc = "done" /\ calls'[p].op = "addComment"
           /\ IsBlank(calls'[p].call.text))
          =>
          /\ "error" \in DOMAIN calls'[p].result
          /\ comments' = comments
          /\ nodes' = nodes
          /\ stories' = stories
      ]_vars
\* C13: an addCommentToStoryNodeAction call (with data that pass the schema)
\* whose nodeId names no node document of the story returns an error and
\* persists nothing: no comment is created and no counter is changed.
C13_MissingNodeCommentRejected ==
    [][\A p \in Procs :
          (/\ calls[p].pc = "ac_commit"
           /\ calls'[p].pc = "done"
           /\ ~NodeExists(calls[p].storyId, calls[p].nodeId))
          =>
          /\ "error" \in DOMAIN calls'[p].result
          /\ comments' = comments
          /\ nodes' = nodes
          /\ stories' = stories
      ]_vars

\* a comment on a node id that exists, but under another story than the one
\* named by the call, has failed; the store holds a comment of another call
C13_Witness ==
    \E p \in Procs :
        /\ IsDone(p, "addComment") /\ Failed(p)
        /\ Cause(p) = "not-found"
        /\ calls[p].call.nodeId \in NodeIds
        /\ nodes[calls[p].call.nodeId].exists
        /\ nodes[calls[p].call.nodeId].storyId # calls[p].call.storyId
        /\ Len(comments) = 1
\* C14: a handleVote call (with data that pass the schema) whose nodeId names
\* no node document of the story returns an error that carries 'Story node
\* not found.' and writes nothing: no node is created, no node or story changed.
C14_MissingNodeVoteRejected ==
    [][\A p \in Procs :
          (/\ calls[p].pc \in {"hv_get", "hv_commit"}
           /\ calls'[p].pc = "done"
           /\ ~NodeExists(calls[p].storyId, calls[p].nodeId))
          =>
          /\ "error" \in DOMAIN calls'[p].result
          /\ calls'[p].result.cause = "Story node not found."
          /\ nodes' = nodes
          /\ stories' = stories
          /\ comments' = comments
      ]_vars

\* a vote on the node id of the first node, but under a story that does not
\* exist, has failed, while the node holds the vote of another call
C14_Witness ==
    \E p \in Procs :
        /\ IsDone(p, "handleVote") /\ Failed(p)
        /\ Cause(p) = "Story node not found."
        /\ calls[p].call.nodeId = 1 /\ calls[p].call.storyId = BogusId
        /\ nodes[1].upvotes = 1
\* every story has a root node, every root node has its story, and a reader
\* that found the story has found a root node with it
StoryAndRootTogether ==
    /\ \A s \in StoryIds :
          stories[s].exists => \E n \in NodesOf(s) : nodes[n].parentId = Null
    /\ \A n \in NodeIds :
          (nodes[n].exists /\ nodes[n].parentId = Null) => StoryExists(nodes[n].storyId)
    /\ \A p \in Procs :
          (IsDone(p, "fetchStoryAndNodes") /\ ~Failed(p)) =>
              \E i \in 1..Len(calls[p].result.storyNodes) :
                  calls[p].result.storyNodes[i].parentId = Null

\* C15: createStoryAction creates the story and its first node atomically: no
\* state has a story without root node or a root node without story; right
\* after a successful call the story has nodeCount 1 and exactly one node,
\* with parentId null, upvotes 0, downvotes 0, empty votedBy, commentCount 0;
\* a failed call has created neither document.
C15_CreateIsAtomic ==
    [][/\ StoryAndRootTogether'
       /\ \A p \in Procs :
             (/\ calls[p].pc # "done"
              /\ calls'[p].pc = "done" /\ calls'[p].op = "createStory")
             =>
             IF "success" \in DOMAIN calls'[p].result
             THEN LET s == calls'[p].result.storyId
                  IN /\ ~stories[s].exists /\ stories'[s].exists
                     /\ stories'[s].nodeCount = 1
                     /\ \E n \in NodeIds :
                           /\ {m \in NodeIds : nodes'[m].exists /\ nodes'[m].storyId = s} = {n}
                           /\ ~nodes[n].exists
                           /\ nodes'[n].parentId = Null
                           /\ nodes'[n].upvotes = 0 /\ nodes'[n].downvotes = 0
                           /\ nodes'[n].votedBy = EmptyMap
                           /\ nodes'[n].commentCount = 0
             ELSE stories' = stories /\ nodes' = nodes
      ]_vars

\* one createStoryAction call has succeeded and its story has one node, the
\* call of another process has failed and has left no document
C15_Witness ==
    \E p, q \in Procs :
        /\ IsDone(p, "createStory") /\ Succeeded(p)
        /\ Cardinality(NodesOf(calls[p].result.storyId)) = 1
        /\ IsDone(q, "createStory") /\ Failed(q)
        /\ Cardinality({s \in StoryIds : stories[s].exists}) = 1
\* the step ends a call of operation op with a success
Ends(p, op) ==
    /\ calls[p].pc # "done"
    /\ calls'[p].pc = "done" /\ calls'[p].op = op
    /\ "success" \in DOMAIN calls'[p].result

\* node n is the one branch B1 under the root of a story of two nodes
IsB1(s, n) ==
    /\ NodeExists(s, n)
    /\ Cardinality(NodesOf(s)) = 2
    /\ nodes[n].parentId # Null
    /\ NodeExists(s, nodes[n].parentId)
    /\ nodes[nodes[n].parentId].parentId = Null

\* the voter of the scenario
V1 == CHOOSE v \in Voters : \A w \in Voters : v <= w

\* createStoryAction gives nodeCount 1
ScenarioCreate ==
    \A p \in Procs :
        Ends(p, "createStory") => stories'[calls'[p].result.storyId].nodeCount = 1

\* one addStoryNodeAction under the root gives nodeCount 2
ScenarioAddBranch ==
    \A p \in Procs :
        (/\ Ends(p, "addStoryNode")
         /\ NodesOf(calls[p].storyId) = {calls[p].parentNodeId}
         /\ nodes[calls[p].parentNodeId].parentId = Null)
        => stories'[calls[p].storyId].nodeCount = 2

\* an upvote on B1 by V1 gives B1.upvotes 1
ScenarioFirstVote ==
    \A p \in Procs :
        (/\ Ends(p, "handleVote")
         /\ calls[p].userId = V1 /\ calls[p].voteType = "upvote"
         /\ IsB1(calls[p].storyId, calls[p].nodeId)
         /\ nodes[calls[p].nodeId].votedBy = EmptyMap
         /\ nodes[calls[p].nodeId].upvotes = 0)
        => nodes'[calls[p].nodeId].upvotes = 1

\* a second upvote on B1 by V1 gives B1.upvotes 0
ScenarioSecondVote ==
    \A p \in Procs :
        (/\ Ends(p, "handleVote")
         /\ calls[p].userId = V1 /\ calls[p].voteType = "upvote"
         /\ IsB1(calls[p].storyId, calls[p].nodeId)
         /\ nodes[calls[p].nodeId].votedBy = [v \in {V1} |-> "upvote"]
         /\ nodes[calls[p].nodeId].upvotes = 1)
        => nodes'[calls[p].nodeId].upvotes = 0

\* one addCommentToStoryNodeAction on B1 gives B1.commentCount 1 and story
\* total comment count 1
ScenarioComment ==
    \A p \in Procs :
        (/\ Ends(p, "addComment")
         /\ IsB1(calls[p].storyId, calls[p].nodeId)
         /\ nodes[calls[p].nodeId].votedBy = EmptyMap
         /\ comments = <<>>)
        => /\ nodes'[calls[p].nodeId].commentCount = 1
           /\ FieldOr0(stories'[calls[p].storyId], "commentCount") = 1

\* C16: the sequential scenario: createStoryAction gives nodeCount 1; one
\* addStoryNodeAction under the root gives nodeCount 2; an upvote on the new
\* node B1 by voter V1 gives B1.upvotes 1; a second upvote on B1 by V1 gives
\* B1.upvotes 0; one addCommentToStoryNodeAction on B1 gives B1.commentCount 1
\* and story total comment count 1.
C16_SequentialScenario ==
    [][/\ ScenarioCreate
       /\ ScenarioAddBranch
       /\ ScenarioFirstVote
       /\ ScenarioSecondVote
       /\ ScenarioComment
      ]_vars
\* the elements of a sequence
Range(seq) == {seq[i] : i \in 1..Len(seq)}

\* process p has read story s and its nodes
HasRead(p, s) ==
    /\ IsDone(p, "fetchStoryAndNodes") /\ ~Failed(p)
    /\ calls[p].call.storyId = s

Ids(storyNodes) == {storyNodes[i].id : i \in 1..Len(storyNodes)}
NodeOf(storyNodes, id) == CHOOSE x \in Range(storyNodes) : x.id = id

\* the ids one reaches from the ids of S through at most k child links
RECURSIVE Closure(_, _, _)
Closure(storyNodes, S, k) ==
    IF k = 0 THEN S
    ELSE Closure(storyNodes,
                 S \cup {x.id : x \in {y \in Range(storyNodes) : y.parentId \in S}},
                 k - 1)

ReachableFromRoot(storyNodes) ==
    Closure(storyNodes,
            {x.id : x \in {y \in Range(storyNodes) : y.parentId = Null}},
            Len(storyNodes))
Descendants(storyNodes, id) ==
    Closure(storyNodes, {id}, Len(storyNodes)) \ {id}

PosIn(t, id) == CHOOSE i \in 1..Len(t) : t[i] = id

\* t is the depth-first pre-order walk of storyNodes from its root, the
\* children of a node in ascending order
IsPreOrderWalk(t, storyNodes) ==
    /\ Range(t) = ReachableFromRoot(storyNodes)
    /\ Len(t) = Cardinality(Range(t))
    /\ t # <<>> => NodeOf(storyNodes, t[1]).parentId = Null
    /\ \A id \in Range(t) :
          LET x == NodeOf(storyNodes, id)
          IN /\ x.parentId # Null => PosIn(t, x.parentId) < PosIn(t, id)
             /\ {t[i] : i \in (PosIn(t, id) + 1) ..
                                (PosIn(t, id) + Cardinality(Descendants(storyNodes, id)))}
                    = Descendants(storyNodes, id)
    /\ \A a, b \in Range(t) :
          (/\ NodeOf(storyNodes, a).parentId = NodeOf(storyNodes, b).parentId
           /\ NodeOf(storyNodes, a).order < NodeOf(storyNodes, b).order)
          => PosIn(t, a) < PosIn(t, b)

\* C18: the rendered traversal of a story is a depth-first pre-order walk
\* from the node with parentId null, the children of each node in ascending
\* order; every node reachable from the root through parentId links appears
\* exactly once, and a node appears after its parent.
C18_TraversalIsPreOrderWalk ==
    \A p \in Procs :
        (IsDone(p, "fetchStoryAndNodes") /\ ~Failed(p)) =>
            IsPreOrderWalk(Traversal(calls[p].result.storyNodes),
                           calls[p].result.storyNodes)

\* a reader has read a story of four nodes: the root, two children of
\* different order, and a child of the first child that was added last, so
\* that the walk leaves the order of the query to go down before going on
C18_Witness ==
    \E p \in Procs :
        /\ IsDone(p, "fetchStoryAndNodes") /\ ~Failed(p)
        /\ LET sn == calls[p].result.storyNodes
               t == Traversal(sn)
           IN /\ Len(sn) = 4 /\ Len(t) = 4
              /\ NodeOf(sn, t[2]).parentId = t[1]
              /\ NodeOf(sn, t[3]).parentId = t[2]
              /\ NodeOf(sn, t[4]).parentId = t[1]
              /\ NodeOf(sn, t[2]).order < NodeOf(sn, t[4]).order
              /\ sn[3].id = t[4] /\ sn[4].id = t[3]
\* the nodes whose parentId is the id of no node read
Orphans(storyNodes) ==
    {x.id : x \in {y \in Range(storyNodes) :
                      y.parentId # Null /\ y.parentId \notin Ids(storyNodes)}}

\* C19: when the nodes of a story contain a node whose non-null parentId is
\* the id of no node of the story, tree assembly reports that node in a
\* diagnostic and does not drop it silently, and it still produces the
\* traversal of all nodes reachable from the root.
C19_OrphansReported ==
    \A p \in Procs :
        (IsDone(p, "fetchStoryAndNodes") /\ ~Failed(p)) =>
            LET sn == calls[p].result.storyNodes
            IN /\ Orphans(sn) \subseteq Diagnostics(sn)
               /\ Range(Traversal(sn)) = ReachableFromRoot(sn)
\* C20: no two nodes of a story with the same parentId have the same order,
\* whatever the interleaving of addStoryNodeAction calls, also when two calls
\* read the clock at the same instant.
C20_SiblingOrdersDistinct ==
    \A n, m \in NodeIds :
        (/\ n # m
         /\ nodes[n].exists /\ nodes[m].exists
         /\ nodes[n].storyId = nodes[m].storyId
         /\ nodes[n].parentId = nodes[m].parentId)
        => nodes[n].order # nodes[m].order
\* process p has retrieved the comments of node n of story s
HasReadComments(p, s, n) ==
    /\ IsDone(p, "fetchNodeComments")
    /\ calls[p].call.storyId = s /\ calls[p].call.nodeId = n

\* the place of the comment document id in the order of the commits
CommitPos(id) == CHOOSE i \in 1..Len(comments) : comments[i].id = id

\* C21: fetchNodeComments returns the comments of a node in ascending
\* createdAt order, and two comments of equal createdAt in the order in which
\* they were committed.
C21_CommentsChronologicalTiesByCommit ==
    \A p \in Procs :
        IsDone(p, "fetchNodeComments") =>
            LET r == calls[p].result.nodeComments
            IN \A i, j \in 1..Len(r) :
                   i < j =>
                       /\ r[i].createdAt <= r[j].createdAt
                       /\ r[i].createdAt = r[j].createdAt =>
                              CommitPos(r[i].id) < CommitPos(r[j].id)
IsPrefix(a, b) == Len(a) <= Len(b) /\ SubSeq(b, 1, Len(a)) = a

\* C22: comment threads are append-only in retrieval order: what a retrieval
\* of the comments of a node returned is a prefix of what every later
\* retrieval of that node returns, whatever addCommentToStoryNodeAction calls
\* complete in between.
C22_ThreadIsAppendOnly ==
    [][\A p, q \in Procs :
          (/\ p # q
           /\ calls[q].pc = "fc_query" /\ calls'[q].pc = "done"
           /\ HasReadComments(p, calls[q].storyId, calls[q].nodeId))
          =>
          IsPrefix(calls[p].result.nodeComments, calls'[q].result.nodeComments)
      ]_vars
\* C23: in every committed state, the commentCount of each node is the number
\* of comment documents stored under the node: the comment and the increment
\* are committed together or not at all.
C23_CommentCountIsNumberOfComments ==
    \A n \in NodeIds :
        nodes[n].exists =>
            FieldOr0(nodes[n], "commentCount")
                = Cardinality(CommentsOf(nodes[n].storyId, n))

\* two calls that ran at the same time have both committed a comment on the
\* first node
C23_Witness ==
    /\ \A p \in Procs : IsDone(p, "addComment") /\ Succeeded(p)
    /\ nodes[1].commentCount = 2
    /\ Cardinality(CommentsOf(1, 1)) = 2
\* the fields of a node document that a vote does not write
Unvoted(nodeData) ==
    IF ~nodeData.exists THEN nodeData
    ELSE [storyId |-> nodeData.storyId, parentId |-> nodeData.parentId,
          order |-> nodeData.order, commentCount |-> nodeData.commentCount]

\* C24: a handleVote call changes only upvotes, downvotes, votedBy (and
\* updatedAt) of the node it names: the story documents, the commentCount,
\* parentId, storyId and order of the node, every other node and every
\* comment are as they were.
C24_VoteFrame ==
    [][\A p \in Procs :
          (calls[p].pc \in {"hv_get", "hv_commit"} /\ calls'[p] # calls[p])
          =>
          /\ stories' = stories
          /\ comments' = comments
          /\ \A n \in NodeIds :
                /\ Unvoted(nodes'[n]) = Unvoted(nodes[n])
                /\ n # calls[p].nodeId => nodes'[n] = nodes[n]
      ]_vars

\* a vote has been recorded on a node with a comment, next to another node
C24_Witness ==
    \E p \in Procs, n \in NodeIds :
        /\ IsDone(p, "handleVote") /\ Succeeded(p)
        /\ calls[p].call.nodeId = n
        /\ nodes[n].exists /\ nodes[n].commentCount = 1
        /\ nodes[n].votedBy # EmptyMap
        /\ Cardinality(NodesOf(nodes[n].storyId)) = 2
\* process p is in the transaction of a handleVote call
InVote(p) == calls[p].pc \in {"hv_get", "hv_commit"}

\* C25: every handleVote call terminates: after a failed commit the whole
\* read-compute-write cycle is run again with a fresh read, MaxAttempts times
\* at most, and the call then returns success, its vote committed once, or
\* an error, nothing written by it; it neither retries forever nor applies
\* its toggle more than once.
C25_VoteTerminates ==
    /\ \A p \in Procs : InVote(p) ~> (calls[p].pc = "done")
    /\ [][\A p \in Procs :
            (InVote(p) /\ calls'[p].pc # calls[p].pc)
            =>
            /\ calls[p].attempts <= MaxAttempts
            /\ IF calls'[p].pc = "done" /\ "success" \in DOMAIN calls'[p].result
               THEN /\ calls[p].pc = "hv_commit" /\ ~calls[p].stale
                    /\ nodes' = [nodes EXCEPT ![calls[p].nodeId] =
                           NodeAfterVote(@, VoteToggle(@, calls[p].userId,
                                                       calls[p].voteType))]
               ELSE nodes' = nodes
            /\ calls'[p].pc = "hv_commit" =>
                   calls'[p].update = VoteToggle(nodes[calls[p].nodeId],
                                                 calls[p].userId, calls[p].voteType)
         ]_vars

\* a call has given up after MaxAttempts runs of its transaction, each undone
\* by a vote of the other voter, and has left no entry of its voter
C25_Witness ==
    \E p \in Procs :
        /\ IsDone(p, "handleVote") /\ Failed(p)
        /\ Cause(p) = "failed-precondition"
        /\ calls[p].call.attempts = MaxAttempts
        /\ calls[p].call.userId \notin DOMAIN nodes[1].votedBy
\* C26: mutations of one node are linearizable: a handleVote call and an
\* addCommentToStoryNodeAction call that run concurrently on one node and
\* both succeed each take effect on the node as it is when they commit, so
\* that the node shows the vote and a commentCount higher by exactly one,
\* as after running the two one after the other.
C26_VoteAndCommentLinearizable ==
    [][\A p \in Procs :
          /\ (/\ calls[p].pc = "hv_commit" /\ calls'[p].pc = "done"
               /\ "success" \in DOMAIN calls'[p].result)
              =>
              LET n == calls[p].nodeId
                  toggled == VoteToggle(nodes[n], calls[p].userId, calls[p].voteType)
              IN nodes' = [nodes EXCEPT ![n] =
                     [nodes[n] EXCEPT !.upvotes = toggled.upvotes,
                                      !.downvotes = toggled.downvotes,
                                      !.votedBy = toggled.votedBy]]
          /\ (/\ calls[p].pc = "ac_commit" /\ calls'[p].pc = "done"
               /\ "success" \in DOMAIN calls'[p].result)
              =>
              LET n == calls[p].nodeId
              IN /\ nodes' = [nodes EXCEPT ![n] =
                        [nodes[n] EXCEPT !.commentCount = nodes[n].commentCount + 1]]
                 /\ Len(comments') = Len(comments) + 1
      ]_vars

\* a vote and a comment on the first node have both succeeded, the vote after
\* its transaction was run again because the comment was committed between
\* its read and its commit; the node shows the vote and the comment
C26_Witness ==
    \E p, q \in Procs :
        /\ IsDone(p, "handleVote") /\ Succeeded(p)
        /\ calls[p].call.nodeId = 1 /\ calls[p].call.attempts = 2
        /\ IsDone(q, "addComment") /\ Succeeded(q)
        /\ calls[q].call.nodeId = 1
        /\ nodes[1].commentCount = 1 /\ Len(comments) = 1
        /\ DOMAIN nodes[1].votedBy = {calls[p].call.userId}
        /\ nodes[1].upvotes + nodes[1].downvotes = 1
\* C27: concurrent addStoryNodeAction calls on one story are serialized by
\* the story document: every call that returns success has created a node
\* of its own, and each success has raised the stored nodeCount by exactly
\* one (no lost increment).
C27_ConcurrentAddsSerialized ==
    [][/\ \A p \in Procs :
             (/\ calls[p].pc = "an_commit" /\ calls'[p].pc = "done"
              /\ "success" \in DOMAIN calls'[p].result)
             =>
             LET s == calls[p].storyId
                 n == calls'[p].result.newNodeId
             IN /\ ~nodes[n].exists /\ nodes'[n].exists
                /\ nodes'[n].storyId = s
                /\ nodes'[n].parentId = calls[p].parentNodeId
                /\ stories'[s].nodeCount = stories[s].nodeCount + 1
                /\ \A m \in NodeIds \ {n} : nodes'[m] = nodes[m]
                /\ \A t \in StoryIds \ {s} : stories'[t] = stories[t]
       /\ \A p \in Procs :
             (calls[p].pc \in {"an_get", "an_commit"} /\ calls'[p].pc # calls[p].pc
              /\ ~(calls'[p].pc = "done" /\ "success" \in DOMAIN calls'[p].result))
             => (nodes' = nodes /\ stories' = stories)
       /\ \A p, q \in Procs :
             (/\ p # q
              /\ calls'[p].pc = "done" /\ calls'[p].op = "addStoryNode"
              /\ "success" \in DOMAIN calls'[p].result
              /\ calls'[q].pc = "done" /\ calls'[q].op = "addStoryNode"
              /\ "success" \in DOMAIN calls'[q].result)
             => calls'[p].result.newNodeId # calls'[q].result.newNodeId
      ]_vars

\* two calls on one story, under different parents, have run at the same
\* time and have both succeeded, one of them after running its transaction
\* again; the story counts the root and their two nodes
C27_Witness ==
    \E p, q \in Procs :
        /\ p # q
        /\ IsDone(p, "addStoryNode") /\ Succeeded(p)
        /\ IsDone(q, "addStoryNode") /\ Succeeded(q)
        /\ calls[p].call.storyId = calls[q].call.storyId
        /\ calls[p].call.parentNodeId # calls[q].call.parentNodeId
        /\ calls[p].call.attempts = 1 /\ calls[q].call.attempts = 2
        /\ stories[calls[p].call.storyId].nodeCount = 3
        /\ Cardinality(NodesOf(calls[p].call.storyId)) = 3
MutatingOps == {"createStory", "addStoryNode", "addComment", "handleVote"}

\* the write of the call that process p ends in this step has been committed
\* in this step
EffectPresent(p) ==
    LET c == calls'[p].call
        res == calls'[p].result
    IN CASE calls'[p].op = "createStory" ->
               /\ "storyId" \in DOMAIN res
               /\ ~stories[res.storyId].exists /\ stories'[res.storyId].exists
         [] calls'[p].op = "addStoryNode" ->
               /\ "newNodeId" \in DOMAIN res
               /\ ~nodes[res.newNodeId].exists /\ nodes'[res.newNodeId].exists
               /\ stories'[c.storyId].nodeCount = stories[c.storyId].nodeCount + 1
         [] calls'[p].op = "addComment" ->
               /\ Len(comments') = Len(comments) + 1
               /\ comments'[Len(comments')].nodeId = c.nodeId
               /\ "commentId" \in DOMAIN res
               /\ comments'[Len(comments')].id = res.commentId
               /\ nodes'[c.nodeId].commentCount = nodes[c.nodeId].commentCount + 1
         [] calls'[p].op = "handleVote" ->
               nodes'[c.nodeId] =
                   NodeAfterVote(nodes[c.nodeId],
                                 VoteToggle(nodes[c.nodeId], c.userId, c.voteType))

StoreUnchanged == stories' = stories /\ nodes' = nodes /\ comments' = comments

C30_UpdatedAtNeverDecreases ==
    [][\A s \in StoryIds :
          /\ stories[s].exists
              => /\ stories'[s].exists
                 /\ stories'[s].updatedAt >= stories[s].updatedAt
          /\ stories'[s].exists
              => stories'[s].updatedAt >= stories'[s].createdAt
      ]_vars

\* the second half of C30 alone: updatedAt is never smaller than createdAt
UpdatedAtNotBeforeCreatedAt ==
    \A s \in StoryIds : stories[s].exists => stories[s].updatedAt >= stories[s].createdAt
====
